---- MODULE Spec2Model ----
(***************************************************************************)
(* ProcessDesignPro: the change propagation engine (core/data_sync.py),    *)
(* the entity model (core/models.py), the SQLite store (core/database.py), *)
(* the project manager's data operations (core/project_manager.py) and the *)
(* pinch analysis of modules/heat_balance.py.                              *)
(*                                                                         *)
(* Numbers: mass fractions are integers in units of 1/FractionScale, flow  *)
(* rates are integers (kg/h), heats are integers in units of 1/HeatScale   *)
(* kW.  A NULL column / Python None is the empty string "" where the code  *)
(* only tests truthiness, and the empty set {} where a JSON payload is     *)
(* optional.                                                               *)
(***************************************************************************)
EXTENDS Integers, Sequences, FiniteSets, TLC

VARIABLES
    db,            \* the SQLite tables of the open project
    foreign_keys,  \* PRAGMA foreign_keys of the open connection
    events,        \* Qt signals emitted by the last top-level call, in order
    last,          \* the last top-level call: its arguments, handlers, calculator runs
    fn             \* the last application of a pure function (SpecFn only)

vars == <<db, foreign_keys, events, last, fn>>

\* ------------------------------------------------------------------ ids
UnitIds == {"u1", "u2"}
StreamIds == {"s1", "s2"}
\* Material ids (composition keys) are "M1", "M2" and "water": no id is a
\* substring of another one or of the JSON punctuation, so
\* `composition_json LIKE '%id%'` selects exactly the rows whose composition
\* has the key.

NULL == ""
FractionScale == 100
HeatScale == 2000

\* f"EQ-{unit_id}"
EquipmentIdOf(unit_id) == "EQ-" \o unit_id

Abs(x) == IF x < 0 THEN 0 - x ELSE x
Min(a, b) == IF a <= b THEN a ELSE b
Max(a, b) == IF a >= b THEN a ELSE b

RECURSIVE SumOver(_, _)
SumOver(S, f) ==
    IF S = {} THEN 0
    ELSE LET x == CHOOSE y \in S : TRUE IN f[x] + SumOver(S \ {x}, f)

\* ------------------------------------------------------------ rule table
Triggers == {"add", "update", "delete"}

\* a rule table in which the process_flow rule names heat_balance twice
rules_with_repeated_target ==
    [material_params   |-> [triggers |-> Triggers,
                            targets  |-> <<"process_materials", "material_balance", "heat_balance">>],
     process_materials |-> [triggers |-> Triggers,
                            targets  |-> <<"material_balance", "heat_balance", "water_balance", "process_flow">>],
     process_flow      |-> [triggers |-> Triggers,
                            targets  |-> <<"equipment_list", "heat_balance", "heat_balance">>],
     equipment_list    |-> [triggers |-> Triggers,
                            targets  |-> <<"material_balance", "heat_balance", "water_balance">>]]

sync_rules ==
    [material_params   |-> [triggers |-> Triggers,
                            targets  |-> <<"process_materials", "material_balance", "heat_balance">>],
     process_materials |-> [triggers |-> Triggers,
                            targets  |-> <<"material_balance", "heat_balance", "water_balance", "process_flow">>],
     process_flow      |-> [triggers |-> Triggers,
                            targets  |-> <<"equipment_list", "material_balance", "heat_balance">>],
     equipment_list    |-> [triggers |-> Triggers,
                            targets  |-> <<"material_balance", "heat_balance", "water_balance">>]]

RuleModules == DOMAIN sync_rules

\* ------------------------------------------------------------ the store
EmptyDb ==
    [process_flow      |-> << >>,   \* unit_id (UNIQUE)      -> row
     process_materials |-> << >>,   \* stream_id (UNIQUE)    -> row
     material_params   |-> << >>,   \* material_id (UNIQUE)  -> row
     equipment_list    |-> << >>,   \* equipment_id (UNIQUE) -> row
     material_balance  |-> << >>,   \* rows in rowid order; unit_id is not unique
     heat_balance      |-> << >>,
     water_balance     |-> << >>]

HasRow(table, id) == id \in DOMAIN table

Put(table, id, row) == [k \in (DOMAIN table) \cup {id} |-> IF k = id THEN row ELSE table[k]]

Drop(table, id) == [k \in (DOMAIN table) \ {id} |-> table[k]]

\* rows of a balance table whose unit_id is unit_id
RowsOf(rows, unit_id) == {i \in DOMAIN rows : rows[i].unit_id = unit_id}

\* FOREIGN KEY (unit_id) REFERENCES process_flow (unit_id): checked only when
\* the pragma is on for this connection.
ForeignKeyOk(d, unit_id) == (~foreign_keys) \/ HasRow(d.process_flow, unit_id)

\* ------------------------------------------------- the entity classes
\* Columns of each table (SELECT * returns all of them, `id` included).
Columns ==
    [process_flow      |-> {"id", "unit_id", "name", "type", "description", "position_x",
                            "position_y", "connections_json", "parameters_json",
                            "created_date", "modified_date"},
     process_materials |-> {"id", "stream_id", "name", "phase", "temperature", "pressure",
                            "flow_rate", "composition_json", "source_unit",
                            "destination_unit", "properties_json", "created_date",
                            "modified_date"},
     material_params   |-> {"id", "material_id", "name", "chemical_formula", "molar_mass",
                            "density", "viscosity", "specific_heat", "thermal_conductivity",
                            "safety_class", "storage_conditions", "properties_json",
                            "created_date", "modified_date"},
     equipment_list    |-> {"id", "equipment_id", "name", "type", "model",
                            "specifications_json", "quantity", "material_of_construction",
                            "operating_conditions_json", "utility_requirements_json",
                            "manufacturer", "created_date", "modified_date"},
     material_balance  |-> {"id", "unit_id", "input_streams_json", "output_streams_json",
                            "conversion_rate", "yield", "losses_json", "calculated_data_json",
                            "balance_status", "tolerance", "created_date", "modified_date"}]

\* Dataclass fields (the keyword arguments each constructor accepts).
Fields ==
    [MaterialParameter |-> {"material_id", "name", "chemical_formula", "cas_number",
                            "molar_mass", "density", "viscosity", "specific_heat",
                            "thermal_conductivity", "sulfuric_acid_content_92",
                            "sulfuric_acid_content_98", "nitrate_content", "chloride_content",
                            "iron_content", "lead_content", "arsenic_content",
                            "selenium_content", "reducing_substances", "safety_class",
                            "storage_conditions", "hazard_classification", "properties",
                            "created_date", "modified_date"},
     ProcessMaterial   |-> {"stream_id", "name", "phase", "temperature", "pressure",
                            "flow_rate", "composition", "source_unit", "destination_unit",
                            "properties", "created_date", "modified_date"},
     ProcessUnit       |-> {"unit_id", "name", "type", "description", "position_x",
                            "position_y", "connections", "parameters", "created_date",
                            "modified_date"},
     EquipmentItem     |-> {"equipment_id", "name", "type", "model", "specifications",
                            "quantity", "material_of_construction", "operating_conditions",
                            "utility_requirements", "manufacturer", "created_date",
                            "modified_date"},
     MaterialBalance   |-> {"unit_id", "input_streams", "output_streams", "conversion_rate",
                            "yield_value", "losses", "balance_status", "calculated_data",
                            "tolerance", "created_date", "modified_date"}]

\* Methods each class defines.
Methods ==
    [MaterialParameter |-> {"calculate_enthalpy", "to_dict", "from_dict"},
     ProcessMaterial   |-> {"get_component_flow"},
     ProcessUnit       |-> {"to_dict", "from_dict"},
     EquipmentItem     |-> {"to_dict", "from_dict"},
     MaterialBalance   |-> {"calculate_balance"}]

\* The fields a class keeps as JSON text: to_dict pops <f> and adds <f>_json,
\* from_dict adds <f> and drops every key ending in _json.
JsonFields ==
    [MaterialParameter |-> {"properties"},
     ProcessMaterial   |-> {},
     ProcessUnit       |-> {"connections", "parameters"},
     EquipmentItem     |-> {"specifications", "operating_conditions", "utility_requirements"},
     MaterialBalance   |-> {}]

JsonColumn(f) == f \o "_json"

IsJsonColumn(k) ==
    k \in {JsonColumn(f) : f \in UNION {JsonFields[c] : c \in DOMAIN JsonFields}}
          \cup {"composition_json", "input_streams_json", "output_streams_json",
                "losses_json", "calculated_data_json"}

\* Keys of cls.to_dict(): asdict() with the JSON fields renamed.
ToDictKeys(cls) ==
    (Fields[cls] \ JsonFields[cls]) \cup {JsonColumn(f) : f \in JsonFields[cls]}

\* instance.to_dict() followed by INSERT INTO table (<keys>): the exception it
\* ends in, "" for none.  A class without to_dict raises AttributeError, a key
\* that is no column raises sqlite3.OperationalError.
ToDictInsertError(cls, table) ==
    IF "to_dict" \notin Methods[cls] THEN "AttributeError"
    ELSE IF ~(ToDictKeys(cls) \subseteq Columns[table]) THEN "OperationalError"
    ELSE ""

\* cls.from_dict(dict(row)) for a row of SELECT * FROM table: the exception it
\* ends in, "" for none.  MaterialParameter.from_dict keeps only the valid
\* fields; ProcessUnit and EquipmentItem pass every key not ending in _json to
\* the constructor, which raises TypeError on a key that is no field.
FromDictError(cls, table) ==
    IF "from_dict" \notin Methods[cls] THEN "AttributeError"
    ELSE IF cls = "MaterialParameter" THEN ""
    ELSE LET keys == {k \in Columns[table] : ~IsJsonColumn(k)} \cup JsonFields[cls]
         IN  IF keys \subseteq Fields[cls] THEN "" ELSE "TypeError"

\* the (de)serialisation outcomes the store operations and the engine meet
MaterialParameterFromDictError == FromDictError("MaterialParameter", "material_params")
MaterialBalanceFromDictError == FromDictError("MaterialBalance", "material_balance")
EquipmentItemFromDictError == FromDictError("EquipmentItem", "equipment_list")
MaterialBalanceInsertError == ToDictInsertError("MaterialBalance", "material_balance")

ClassOf == [material_params |-> "MaterialParameter", process_materials |-> "ProcessMaterial",
            process_flow |-> "ProcessUnit", equipment_list |-> "EquipmentItem"]

\* data = obj.to_dict(); INSERT INTO <module> (<keys of data>) in db.add_*
AddError == [module \in DOMAIN ClassOf |-> ToDictInsertError(ClassOf[module], module)]

\* ------------------------------------------------------ call contexts
\* c.db      the tables as the call has left them so far
\* c.ev      signals emitted so far
\* c.runs    calculator runs so far: [kind, unit_id, outcome, created], where
\*           created says that the run inserted the unit's balance row
\* c.raised  the exception propagating out of the current frame, "" for none
\* c.units   the result of the last _find_units_for_* helper
\* c.handlers the handlers sync_data has invoked so far
\* c.failed  the target module whose handler let an exception out, "" for none
Ctx(d) == [db |-> d, ev |-> << >>, runs |-> << >>, raised |-> "", units |-> << >>,
           handlers |-> << >>, failed |-> ""]

Raise(c, exc) == [c EXCEPT !.raised = exc]

\* except Exception as e: print(...)
Swallow(c) == [c EXCEPT !.raised = ""]

Emit(c, e) == [c EXCEPT !.ev = Append(@, e)]

Ran(c, kind, unit_id, outcome, created) ==
    [c EXCEPT !.runs = Append(@, [kind |-> kind, unit_id |-> unit_id, outcome |-> outcome,
                                  created |-> created])]

SetTable(c, name, t) == [c EXCEPT !.db = [@ EXCEPT ![name] = t]]

DataChanged(module, data_id, operation) ==
    [signal |-> "data_changed", source |-> module, data_id |-> data_id, operation |-> operation]

\* create_project connects calculation_completed to
\* ProjectManager._on_calculation_completed (_connect_sync_signals);
\* open_project, which also leaves the pragma off, connects sync_completed and
\* data_updated only (_connect_signals)
SyncSignalsConnected == foreign_keys

\* the slot of calculation_completed: it logs and emits
\* data_changed(calc_type, unit_id, 'calculated'); c1 is the context with
\* calculation_completed emitted
OnCalculationCompleted(c1, calc_type, unit_id) ==
    IF SyncSignalsConnected THEN Emit(c1, DataChanged(calc_type, unit_id, "calculated"))
    ELSE c1
\* ------------------------------------------------ MaterialBalance model
\* tolerance: float = 0.01, in units of 1/ToleranceScale
ToleranceScale == 100
DefaultTolerance == 1

\* a / b * 100 as an exact fraction
Percent(a, b) == [num |-> a * 100, den |-> b]

\* for stream in streams: if stream.flow_rate: total += stream.flow_rate
TotalFlow(streams) ==
    SumOver(DOMAIN streams, [k \in DOMAIN streams |-> streams[k].flow_rate])

\* for stream in streams: if stream.flow_rate and component in stream.composition:
\*     total += stream.flow_rate * stream.composition[component]
ComponentFlow(streams, component) ==
    SumOver(DOMAIN streams,
            [k \in DOMAIN streams |->
                IF component \in DOMAIN streams[k].composition
                THEN streams[k].flow_rate * streams[k].composition[component]
                ELSE 0])

\* diff_percent <= self.tolerance
WithinTolerance(diff_percent, tolerance) ==
    diff_percent.num * ToleranceScale <= tolerance * diff_percent.den

\* MaterialBalance.calculate_balance: the results payload and the status it
\* leaves in self.balance_status.  input_streams_data / output_streams_data are
\* functions from list positions (or ids) to ProcessMaterial objects.
calculate_balance(tolerance, input_streams_data, output_streams_data) ==
    LET total_input  == TotalFlow(input_streams_data)
        total_output == TotalFlow(output_streams_data)
        all_components ==
            UNION ({DOMAIN input_streams_data[k].composition : k \in DOMAIN input_streams_data}
                   \cup {DOMAIN output_streams_data[k].composition : k \in DOMAIN output_streams_data})
        components ==
            [comp \in all_components |->
                LET comp_input  == ComponentFlow(input_streams_data, comp)
                    comp_output == ComponentFlow(output_streams_data, comp)
                IN  [input      |-> comp_input,
                     output     |-> comp_output,
                     difference |-> comp_output - comp_input,
                     conversion |-> IF comp_input > 0
                                    THEN Percent(comp_input - comp_output, comp_input)
                                    ELSE Percent(0, 1)]]
        total_diff   == total_output - total_input
        diff_percent == IF total_input > 0 THEN Percent(Abs(total_diff), total_input)
                        ELSE Percent(1, 1)
        is_balanced  == WithinTolerance(diff_percent, tolerance)
    IN  [results |-> [total_input        |-> total_input,
                      total_output       |-> total_output,
                      components         |-> components,
                      is_balanced        |-> is_balanced,
                      total_difference   |-> total_diff,
                      difference_percent |-> diff_percent],
         balance_status |-> IF is_balanced THEN "balanced" ELSE "unbalanced"]

\* ------------------------------------------------- queries on streams
\* SELECT * FROM process_materials WHERE source_unit = ? OR destination_unit = ?
StreamsOfUnit(d, unit_id) ==
    {s \in DOMAIN d.process_materials :
        \/ d.process_materials[s].source_unit = unit_id
        \/ d.process_materials[s].destination_unit = unit_id}

\* composition_json LIKE '%<material_id>%'
CompositionLike(row, material_id) == material_id \in DOMAIN row.composition

\* ... AND (composition_json LIKE '%water%' OR name LIKE '%水%')
WaterStreamsOfUnit(d, unit_id) ==
    {s \in StreamsOfUnit(d, unit_id) :
        \/ CompositionLike(d.process_materials[s], "water")
        \/ d.process_materials[s].name_has_water}

\* ProcessMaterial.from_dict(stream_data): the exception of the call, "" for
\* none.  The class defines no from_dict.
ProcessMaterialFromDictError == FromDictError("ProcessMaterial", "process_materials")

\* ------------------------------------------------ the mass calculator
\* INSERT INTO material_balance (unit_id, balance_status, created_date, modified_date)
NewBalanceRow(unit_id, status) ==
    [unit_id |-> unit_id, balance_status |-> status, calculated_data |-> {},
     input_streams |-> {}, output_streams |-> {}, tolerance |-> DefaultTolerance]

\* UPDATE material_balance SET balance_status = ?, calculated_data_json = ? WHERE unit_id = ?
UpdateBalanceResult(rows, unit_id, status, results) ==
    [i \in DOMAIN rows |->
        IF rows[i].unit_id = unit_id
        THEN [rows[i] EXCEPT !.balance_status = status, !.calculated_data = {results}]
        ELSE rows[i]]

\* the INSERT of lines 259-267 without the SELECT that guards it
InsertCalculated(c, unit_id) ==
    SetTable(c, "material_balance",
             Append(c.db.material_balance, NewBalanceRow(unit_id, "calculated")))

\* lines 252-267: the record is inserted with status 'calculated' and committed
\* before the streams are read
InsertCalculatedIfMissing(c, unit_id) ==
    IF RowsOf(c.db.material_balance, unit_id) # {} THEN c
    ELSE IF ~ForeignKeyOk(c.db, unit_id) THEN Raise(c, "IntegrityError")
    ELSE SetTable(c, "material_balance",
                  Append(c.db.material_balance, NewBalanceRow(unit_id, "calculated")))

\* lines 298-313: the UPDATE of the unit's record with the results calc of
\* calculate_balance, and the calculation_completed signal
StoreBalanceResult(c1, unit_id, created, calc) ==
    OnCalculationCompleted(
        Emit(Ran(SetTable(c1, "material_balance",
                          UpdateBalanceResult(c1.db.material_balance, unit_id,
                                              calc.balance_status, calc.results)),
                 "material_balance", unit_id, "completed", created),
             [signal |-> "calculation_completed", calc_type |-> "material_balance",
              unit_id |-> unit_id, results |-> calc.results,
              status |-> calc.balance_status]),
        "material_balance", unit_id)

\* lines 269-317: c1 is the context the select-or-insert has left, created
\* says whether it inserted the record
BalanceOverStreams(c1, unit_id, created) ==
    LET d       == c1.db
        streams == StreamsOfUnit(d, unit_id)
        inputs  == {s \in streams : d.process_materials[s].destination_unit = unit_id}
        outputs == {s \in streams \ inputs : d.process_materials[s].source_unit = unit_id}
    IN  IF c1.raised # ""
        THEN Ran(Swallow(c1), "material_balance", unit_id, "failed", FALSE)
        ELSE IF streams # {} /\ ProcessMaterialFromDictError # ""
        THEN Ran(c1, "material_balance", unit_id, "failed", created)
        ELSE IF inputs = {} /\ outputs = {}
        THEN Ran(c1, "material_balance", unit_id, "returned", created)
        ELSE StoreBalanceResult(c1, unit_id, created,
                                calculate_balance(DefaultTolerance,
                                                  [s \in inputs |-> d.process_materials[s]],
                                                  [s \in outputs |-> d.process_materials[s]]))

calculate_material_balance_for_unit(c0, unit_id) ==
    BalanceOverStreams(InsertCalculatedIfMissing(c0, unit_id), unit_id,
                       RowsOf(c0.db.material_balance, unit_id) = {})
\* ------------------------------------------------ the heat calculator
\* Q = m * Cp * dT with m = flow_rate * fraction / 3600 (kg/s) and dT measured
\* from 25 C, in units of 1/HeatScale kW.  Components without a material
\* record or without specific heat contribute 0.
ReferenceTemperature == 25
SecondsPerHour == 3600

StreamHeat(stream, materials) ==
    SumOver(DOMAIN stream.composition,
            [m \in DOMAIN stream.composition |->
                IF m \in DOMAIN materials /\ materials[m].specific_heat # 0
                   /\ stream.flow_rate # 0
                THEN (stream.flow_rate * stream.composition[m] * materials[m].specific_heat
                      * (stream.temperature - ReferenceTemperature) * HeatScale)
                     \div (SecondsPerHour * FractionScale)
                ELSE 0])

\* if not stream.temperature or not stream.flow_rate or not stream.composition: continue
HeatCounted(stream) ==
    stream.temperature # 0 /\ stream.flow_rate # 0 /\ DOMAIN stream.composition # {}

\* heat_loss = total_input_heat * 0.05
HeatLossPercent == 5
HeatLoss(total_input_heat) == (total_input_heat * HeatLossPercent) \div 100

\* abs(total_output_heat - total_input_heat) < 0.01
HeatTolerance == HeatScale \div 100
HeatIsBalanced(total_input_heat, total_output_heat) ==
    Abs(total_output_heat - total_input_heat) < HeatTolerance

\* lines 344-412: the HeatBalance object of a parsed unit and its parsed streams
HeatBalanceOf(unit_id, parameters, streams, materials) ==
    LET counted == {s \in DOMAIN streams : HeatCounted(streams[s])}
        ins     == {s \in counted : streams[s].destination_unit = unit_id}
        outs    == {s \in counted \ ins : streams[s].source_unit = unit_id}
        heat    == [s \in counted |-> StreamHeat(streams[s], materials)]
        reaction_heat == parameters.reaction_heat * HeatScale
        total_input_heat == SumOver(ins, heat) + reaction_heat
        heat_loss == HeatLoss(total_input_heat)
        total_output_heat == SumOver(outs, heat) + heat_loss
        efficiency == IF total_input_heat > 0
                      THEN {Percent(total_output_heat - heat_loss, total_input_heat)}
                      ELSE {}
        balanced == HeatIsBalanced(total_input_heat, total_output_heat)
    IN  [unit_id     |-> unit_id,
         input_heat  |-> [streams |-> [s \in ins |-> heat[s]],
                          reaction |-> IF reaction_heat # 0 THEN {reaction_heat} ELSE {}],
         output_heat |-> [streams |-> [s \in outs |-> heat[s]], heat_loss |-> heat_loss],
         heat_loss   |-> heat_loss,
         efficiency  |-> efficiency,
         balance_status  |-> IF balanced THEN "calculated" ELSE "unbalanced",
         calculated_data |-> [total_input |-> total_input_heat,
                              total_output |-> total_output_heat,
                              difference |-> total_output_heat - total_input_heat,
                              efficiency |-> efficiency,
                              is_balanced |-> balanced]]

\* INSERT whether or not the unit has a row
InsertByUnit(c, table, unit_id, row) ==
    IF ~ForeignKeyOk(c.db, unit_id) THEN Raise(c, "IntegrityError")
    ELSE SetTable(c, table, Append(c.db[table], row))

\* UPDATE <table> SET ... WHERE unit_id = ? when a row exists, else INSERT
UpsertByUnit(c, table, unit_id, row) ==
    LET rows == c.db[table]
    IN  IF RowsOf(rows, unit_id) # {}
        THEN SetTable(c, table, [i \in DOMAIN rows |->
                                    IF rows[i].unit_id = unit_id THEN row ELSE rows[i]])
        ELSE IF ~ForeignKeyOk(c.db, unit_id) THEN Raise(c, "IntegrityError")
        ELSE SetTable(c, table, Append(rows, row))

\* ProcessUnit.from_dict(unit_data[0])
ProcessUnitFromDictError == FromDictError("ProcessUnit", "process_flow")

\* db.get_all_materials(): [] when MaterialParameter.from_dict raises
GetAllMaterials(d) ==
    IF MaterialParameterFromDictError = "" THEN d.material_params
    ELSE << >>

\* lines 414-474: the heat balance hb is written (UPDATE or INSERT) and
\* calculation_completed is emitted
StoreHeatBalance(c0, unit_id, hb) ==
    LET c1 == UpsertByUnit(c0, "heat_balance", unit_id, hb)
    IN  IF c1.raised # ""
        THEN Ran(Swallow(c1), "heat_balance", unit_id, "failed", FALSE)
        ELSE OnCalculationCompleted(
                Emit(Ran(c1, "heat_balance", unit_id, "completed",
                         RowsOf(c0.db.heat_balance, unit_id) = {}),
                     [signal |-> "calculation_completed", calc_type |-> "heat_balance",
                      unit_id |-> unit_id, results |-> hb.calculated_data,
                      status |-> hb.balance_status]),
                "heat_balance", unit_id)

calculate_heat_balance_for_unit(c0, unit_id) ==
    LET d       == c0.db
        streams == StreamsOfUnit(d, unit_id)
    IN  IF ~HasRow(d.process_flow, unit_id)
        THEN Ran(c0, "heat_balance", unit_id, "returned", FALSE)
        ELSE IF ProcessUnitFromDictError # ""
        THEN Ran(c0, "heat_balance", unit_id, "failed", FALSE)
        ELSE IF streams # {} /\ ProcessMaterialFromDictError # ""
        THEN Ran(c0, "heat_balance", unit_id, "failed", FALSE)
        ELSE StoreHeatBalance(c0, unit_id,
                              HeatBalanceOf(unit_id, d.process_flow[unit_id].parameters,
                                            [s \in streams |-> d.process_materials[s]],
                                            GetAllMaterials(d)))

\* ----------------------------------------------- the water calculator
\* water_content: composition['water'] when the key is there, else 1.0 when
\* the name carries the marker, else 0
WaterContent(stream) ==
    IF "water" \in DOMAIN stream.composition THEN stream.composition["water"]
    ELSE IF stream.name_has_water THEN FractionScale
    ELSE 0

\* the difference stored without the sign guard
WaterDifference(water_input, water_output) == water_input - water_output

\* 'water_consumption': water_consumption if water_consumption > 0 else 0
WaterConsumption(water_input, water_output) ==
    IF water_input - water_output > 0 THEN water_input - water_output ELSE 0

\* lines 490-522: water flows are in units of 1/FractionScale kg/h
WaterBalanceData(unit_id, streams) ==
    LET flow == [s \in DOMAIN streams |-> streams[s].flow_rate * WaterContent(streams[s])]
        ins  == {s \in DOMAIN streams : streams[s].destination_unit = unit_id}
        outs == {s \in (DOMAIN streams) \ ins : streams[s].source_unit = unit_id}
        water_input  == SumOver(ins, flow)
        water_output == SumOver(outs, flow)
    IN  [unit_id           |-> unit_id,
         fresh_water_in    |-> water_input,
         recycled_water_in |-> 0,
         water_consumption |-> WaterConsumption(water_input, water_output),
         wastewater_out    |-> water_output]

\* calculation_completed emitted without the record being written
EmitWaterBalance(c0, unit_id, data) ==
    Emit(Ran(c0, "water_balance", unit_id, "completed", FALSE),
         [signal |-> "calculation_completed", calc_type |-> "water_balance",
          unit_id |-> unit_id, results |-> data, status |-> "calculated"])

\* lines 524-573: water_balance_data is written (UPDATE or INSERT) and
\* calculation_completed is emitted
StoreWaterBalance(c0, unit_id, data) ==
    LET c1 == UpsertByUnit(c0, "water_balance", unit_id, data)
    IN  IF c1.raised # ""
        THEN Ran(Swallow(c1), "water_balance", unit_id, "failed", FALSE)
        ELSE OnCalculationCompleted(
                Emit(Ran(c1, "water_balance", unit_id, "completed",
                         RowsOf(c0.db.water_balance, unit_id) = {}),
                     [signal |-> "calculation_completed", calc_type |-> "water_balance",
                      unit_id |-> unit_id, results |-> data, status |-> "calculated"]),
                "water_balance", unit_id)

calculate_water_balance_for_unit(c0, unit_id) ==
    LET d       == c0.db
        streams == WaterStreamsOfUnit(d, unit_id)
    IN  IF streams # {} /\ ProcessMaterialFromDictError # ""
        THEN Ran(c0, "water_balance", unit_id, "failed", FALSE)
        ELSE StoreWaterBalance(c0, unit_id,
                               WaterBalanceData(unit_id,
                                                [s \in streams |-> d.process_materials[s]]))
\* ------------------------------------------------------------ helpers
Calculate(c, kind, unit_id) ==
    CASE kind = "material_balance" -> calculate_material_balance_for_unit(c, unit_id)
      [] kind = "heat_balance"     -> calculate_heat_balance_for_unit(c, unit_id)
      [] kind = "water_balance"    -> calculate_water_balance_for_unit(c, unit_id)

\* for unit_id in units: self._calculate_<kind>_for_unit(unit_id)
RECURSIVE CalculateEach(_, _, _)
CalculateEach(c, kind, units) ==
    IF units = << >> THEN c
    ELSE CalculateEach(Calculate(c, kind, Head(units)), kind, Tail(units))

\* rowid order of the process_materials rows
StreamOrder == <<"s1", "s2">>

RECURSIVE Filter(_, _)
Filter(seq, S) ==
    IF seq = << >> THEN << >>
    ELSE IF Head(seq) \in S THEN <<Head(seq)>> \o Filter(Tail(seq), S)
         ELSE Filter(Tail(seq), S)

\* units = []; if stream.source_unit: ...append; if stream.destination_unit: ...append
EndpointsOf(stream) ==
    (IF stream.source_unit # NULL THEN <<stream.source_unit>> ELSE << >>)
    \o (IF stream.destination_unit # NULL THEN <<stream.destination_unit>> ELSE << >>)

\* db.get_process_material(stream_id): None (FALSE) when there is no row or
\* when ProcessMaterial.from_dict raises inside its try block
GetProcessMaterialFound(d, stream_id) ==
    HasRow(d.process_materials, stream_id) /\ ProcessMaterialFromDictError = ""

\* every unit of the flowsheet taken as related to the stream
find_units_of_flowsheet(c, stream_id, found) ==
    [c EXCEPT !.units = Filter(<<"u1", "u2">>, DOMAIN c.db.process_flow)]

\* _find_units_for_stream(stream_id, stream): found says whether the caller
\* passed a stream object; without one the row is read and parsed here,
\* outside any try block.  Leaves the list in c.units.
find_units_for_stream(c, stream_id, found) ==
    IF found THEN [c EXCEPT !.units = EndpointsOf(c.db.process_materials[stream_id])]
    ELSE IF ~HasRow(c.db.process_materials, stream_id) THEN [c EXCEPT !.units = << >>]
    ELSE IF ProcessMaterialFromDictError # ""
    THEN Raise([c EXCEPT !.units = << >>], ProcessMaterialFromDictError)
    ELSE [c EXCEPT !.units = EndpointsOf(c.db.process_materials[stream_id])]

\* del stream.composition[material_id]; composition[comp_id] /= total
Renormalized(composition, material_id) ==
    LET rest  == (DOMAIN composition) \ {material_id}
        total == SumOver(rest, composition)
    IN  [m \in rest |-> IF total > 0 THEN (composition[m] * FractionScale) \div total
                        ELSE composition[m]]

remove_material_from_streams(c, material_id) ==
    LET t       == c.db.process_materials
        streams == {s \in DOMAIN t : CompositionLike(t[s], material_id)}
    IN  IF streams # {} /\ ProcessMaterialFromDictError # ""
        THEN Raise(c, ProcessMaterialFromDictError)
        ELSE SetTable(c, "process_materials",
                [s \in DOMAIN t |->
                    IF s \in streams
                    THEN [t[s] EXCEPT !.composition = Renormalized(@, material_id)]
                    ELSE t[s]])

\* calculated_data_json LIKE '%<material_id>%': the ids occur in the payload
\* only as keys of "components"
CalculatedDataLike(row, material_id) ==
    \E r \in row.calculated_data : material_id \in DOMAIN r.components

\* the marked records put back to 'pending'
reset_balance_to_pending(c, material_id) ==
    LET rows  == c.db.material_balance
        units == {rows[i].unit_id : i \in {j \in DOMAIN rows : CalculatedDataLike(rows[j], material_id)}}
    IN  SetTable(c, "material_balance",
                 [i \in DOMAIN rows |->
                    IF rows[i].unit_id \in units
                    THEN [rows[i] EXCEPT !.balance_status = "pending"]
                    ELSE rows[i]])

mark_balance_for_recalculation(c, material_id) ==
    LET rows  == c.db.material_balance
        units == {rows[i].unit_id : i \in {j \in DOMAIN rows : CalculatedDataLike(rows[j], material_id)}}
    IN  SetTable(c, "material_balance",
                 [i \in DOMAIN rows |->
                    IF rows[i].unit_id \in units
                    THEN [rows[i] EXCEPT !.balance_status = "needs_recalculation"]
                    ELSE rows[i]])

\* the units of the streams containing the material, each once, in the order
\* the loop meets them (processed_units)
RECURSIVE Dedup(_, _)
Dedup(seq, seen) ==
    IF seq = << >> THEN << >>
    ELSE IF Head(seq) \in seen THEN Dedup(Tail(seq), seen)
         ELSE <<Head(seq)>> \o Dedup(Tail(seq), seen \cup {Head(seq)})

RECURSIVE Flatten(_)
Flatten(seqs) == IF seqs = << >> THEN << >> ELSE Head(seqs) \o Flatten(Tail(seqs))

UnitsOfMaterial(d, material_id) ==
    LET t       == d.process_materials
        streams == Filter(StreamOrder, {s \in DOMAIN t : CompositionLike(t[s], material_id)
                                                         /\ GetProcessMaterialFound(d, s)})
    IN  Dedup(Flatten([i \in DOMAIN streams |-> EndpointsOf(t[streams[i]])]), {})

recalculate_material_balances(c, material_id) ==
    CalculateEach(c, "material_balance", UnitsOfMaterial(c.db, material_id))

recalculate_heat_balances_for_material(c, material_id) ==
    CalculateEach(c, "heat_balance", UnitsOfMaterial(c.db, material_id))

\* _get_or_create_material_balance: an existing row goes through
\* MaterialBalance.from_dict, outside any try block
get_or_create_material_balance(c, unit_id) ==
    IF RowsOf(c.db.material_balance, unit_id) # {}
    THEN (IF MaterialBalanceFromDictError # ""
          THEN Raise(c, MaterialBalanceFromDictError)
          ELSE c)
    ELSE IF ~ForeignKeyOk(c.db, unit_id) THEN Raise(c, "IntegrityError")
    ELSE SetTable(c, "material_balance",
                  Append(c.db.material_balance, NewBalanceRow(unit_id, "pending")))

\* _update_balance_streams on the object returned above
StreamList(json) == IF json = {} THEN << >> ELSE CHOOSE l \in json : TRUE

InSeq(x, seq) == \E i \in DOMAIN seq : seq[i] = x

update_balance_streams(c, unit_id, stream_id, operation, found) ==
    LET rows == c.db.material_balance
        i0   == CHOOSE i \in RowsOf(rows, unit_id) : \A j \in RowsOf(rows, unit_id) : i <= j
        ins  == StreamList(rows[i0].input_streams)
        outs == StreamList(rows[i0].output_streams)
        stream == c.db.process_materials[stream_id]
        asIn  == operation # "delete" /\ found /\ stream.destination_unit = unit_id
        asOut == operation # "delete" /\ found /\ ~asIn /\ stream.source_unit = unit_id
        ins2 == IF operation = "delete" THEN Filter(ins, {s \in StreamIds : s # stream_id})
                ELSE IF asIn /\ ~InSeq(stream_id, ins) THEN Append(ins, stream_id) ELSE ins
        outs2 == IF operation = "delete" THEN Filter(outs, {s \in StreamIds : s # stream_id})
                 ELSE IF asOut /\ ~InSeq(stream_id, outs) THEN Append(outs, stream_id) ELSE outs
    IN  SetTable(c, "material_balance",
                 [i \in DOMAIN rows |->
                    IF rows[i].unit_id = unit_id
                    THEN [rows[i] EXCEPT !.input_streams = {ins2}, !.output_streams = {outs2}]
                    ELSE rows[i]])

\* 'water' in stream.composition or the marker in stream.name
is_water_stream(stream) == "water" \in DOMAIN stream.composition \/ stream.name_has_water
\* _update_flow_connections only reads the two unit rows
update_flow_connections(c, stream_id) == c

\* equipment_type_map.get(unit_type, <default label>): the labels are the
\* Chinese display names, written here as "label:<key>"
EquipmentTypeLabel(unit_type) ==
    IF unit_type \in {"reactor", "separator", "heatex", "pump", "compressor", "tank"}
    THEN "label:" \o unit_type
    ELSE "label:equipment"

\* db.add_equipment(equipment): INSERT inside try/except; a failure (UNIQUE
\* equipment_id, a to_dict key that is no column) is rolled back and swallowed
add_equipment(c, equipment_id, row) ==
    IF AddError["equipment_list"] # "" THEN c
    ELSE IF HasRow(c.db.equipment_list, equipment_id) THEN c
    ELSE SetTable(c, "equipment_list", Put(c.db.equipment_list, equipment_id, row))

create_equipment_from_unit(c, unit_id, data) ==
    add_equipment(c, EquipmentIdOf(unit_id),
                  [type |-> EquipmentTypeLabel(data.type), source_unit |-> unit_id])

\* EquipmentItem.from_dict(equipment_data[0]) outside any try block; the
\* UPDATE rewrites name and description only
update_equipment_from_unit(c, unit_id, data) ==
    IF ~HasRow(c.db.equipment_list, EquipmentIdOf(unit_id)) THEN c
    ELSE IF EquipmentItemFromDictError # ""
    THEN Raise(c, EquipmentItemFromDictError)
    ELSE c

delete_equipment_for_unit(c, unit_id) ==
    SetTable(c, "equipment_list", Drop(c.db.equipment_list, EquipmentIdOf(unit_id)))

\* db.add_material_balance(MaterialBalance(unit_id=unit_id)): INSERT inside
\* try/except
create_material_balance_for_unit(c, unit_id) ==
    IF MaterialBalanceInsertError # "" THEN c
    ELSE IF ~ForeignKeyOk(c.db, unit_id) THEN c
    ELSE SetTable(c, "material_balance",
                  Append(c.db.material_balance, NewBalanceRow(unit_id, "pending")))

\* specs.get('source_unit') of the equipment row, [] when the row or the key
\* is missing
find_units_for_equipment(d, equipment_id) ==
    IF HasRow(d.equipment_list, equipment_id) /\ d.equipment_list[equipment_id].source_unit # NULL
    THEN <<d.equipment_list[equipment_id].source_unit>>
    ELSE << >>

\* ------------------------------------------------------------ handlers
\* for unit_id in related_units: get-or-create, update lists, recalculate
RECURSIVE BalanceEach(_, _, _, _, _)
BalanceEach(c, units, stream_id, operation, found) ==
    IF units = << >> THEN c
    ELSE LET c1 == get_or_create_material_balance(c, Head(units))
             c2 == update_balance_streams(c1, Head(units), stream_id, operation, found)
             c3 == calculate_material_balance_for_unit(c2, Head(units))
         IN  IF c1.raised # "" THEN c1
             ELSE BalanceEach(c3, Tail(units), stream_id, operation, found)

sync_material_to_process(c, operation, material_id, data) ==
    IF operation = "delete" THEN remove_material_from_streams(c, material_id)
    ELSE c

sync_material_to_balance(c, operation, material_id, data) ==
    IF operation = "delete" THEN mark_balance_for_recalculation(c, material_id)
    ELSE IF operation \in {"add", "update"} THEN recalculate_material_balances(c, material_id)
    ELSE c

\* db.get_material(material_id): the stored row, parsed
sync_material_to_heat(c, operation, material_id, data) ==
    IF /\ operation \in {"add", "update"} /\ data.truthy
       /\ HasRow(c.db.material_params, material_id)
       /\ MaterialParameterFromDictError = ""
       /\ data.specific_heat # 0
       /\ data.specific_heat # c.db.material_params[material_id].specific_heat
    THEN recalculate_heat_balances_for_material(c, material_id)
    ELSE c

sync_process_to_balance(c, operation, stream_id, data) ==
    LET found == operation # "delete" /\ GetProcessMaterialFound(c.db, stream_id)
        c1    == find_units_for_stream(c, stream_id, found)
    IN  IF c1.raised # "" THEN c1
        ELSE BalanceEach(c1, c1.units, stream_id, operation, found)

sync_process_to_heat(c, operation, stream_id, data) ==
    IF operation \in {"add", "update"} /\ GetProcessMaterialFound(c.db, stream_id)
    THEN CalculateEach(c, "heat_balance", EndpointsOf(c.db.process_materials[stream_id]))
    ELSE c

sync_process_to_water(c, operation, stream_id, data) ==
    IF /\ operation \in {"add", "update"} /\ GetProcessMaterialFound(c.db, stream_id)
       /\ is_water_stream(c.db.process_materials[stream_id])
    THEN CalculateEach(c, "water_balance", EndpointsOf(c.db.process_materials[stream_id]))
    ELSE c

sync_process_to_flow(c, operation, stream_id, data) ==
    IF /\ operation \in {"add", "update"} /\ GetProcessMaterialFound(c.db, stream_id)
       /\ EndpointsOf(c.db.process_materials[stream_id]) # << >>
    THEN update_flow_connections(c, stream_id)
    ELSE c

sync_unit_to_equipment(c, operation, unit_id, data) ==
    IF operation = "add" /\ data.truthy THEN create_equipment_from_unit(c, unit_id, data)
    ELSE IF operation = "update" /\ data.truthy THEN update_equipment_from_unit(c, unit_id, data)
    ELSE IF operation = "delete" THEN delete_equipment_for_unit(c, unit_id)
    ELSE c

sync_unit_to_balance(c, operation, unit_id, data) ==
    IF operation = "add" /\ data.truthy THEN create_material_balance_for_unit(c, unit_id)
    ELSE IF operation \in {"add", "update", "delete"}
    THEN calculate_material_balance_for_unit(c, unit_id)
    ELSE c

sync_unit_to_heat(c, operation, unit_id, data) ==
    IF operation \in {"add", "update", "delete"}
    THEN calculate_heat_balance_for_unit(c, unit_id)
    ELSE c

sync_equipment_to_balance(c, operation, equipment_id, data) ==
    IF operation \in {"add", "update"}
    THEN CalculateEach(c, "material_balance", find_units_for_equipment(c.db, equipment_id))
    ELSE c

sync_equipment_to_heat(c, operation, equipment_id, data) ==
    IF operation \in {"add", "update"}
    THEN CalculateEach(c, "heat_balance", find_units_for_equipment(c.db, equipment_id))
    ELSE c

sync_equipment_to_water(c, operation, equipment_id, data) ==
    IF /\ operation \in {"add", "update"}
       /\ HasRow(c.db.equipment_list, equipment_id)
       /\ c.db.equipment_list[equipment_id].type \in {"pump", "cooling_tower", "boiler"}
    THEN CalculateEach(c, "water_balance", find_units_for_equipment(c.db, equipment_id))
    ELSE c

\* rules['rules'][target_module](source_module, operation, data_id, data)
HandlerName(source_module, target_module) == <<source_module, target_module>>

\* what the except block of sync_data sees of a handler's return: c is the
\* context the handler of target_module has left
HandlerOutcome(c, target_module) ==
    IF c.raised # "" THEN [c EXCEPT !.failed = target_module] ELSE c

Handle(c0, source_module, target_module, operation, data_id, data) ==
    LET c == [c0 EXCEPT !.handlers = Append(@, HandlerName(source_module, target_module))]
    IN  HandlerOutcome(
        CASE source_module = "material_params" ->
               (CASE target_module = "process_materials" -> sync_material_to_process(c, operation, data_id, data)
                  [] target_module = "material_balance"  -> sync_material_to_balance(c, operation, data_id, data)
                  [] target_module = "heat_balance"      -> sync_material_to_heat(c, operation, data_id, data))
          [] source_module = "process_materials" ->
               (CASE target_module = "material_balance" -> sync_process_to_balance(c, operation, data_id, data)
                  [] target_module = "heat_balance"     -> sync_process_to_heat(c, operation, data_id, data)
                  [] target_module = "water_balance"    -> sync_process_to_water(c, operation, data_id, data)
                  [] target_module = "process_flow"     -> sync_process_to_flow(c, operation, data_id, data))
          [] source_module = "process_flow" ->
               (CASE target_module = "equipment_list"   -> sync_unit_to_equipment(c, operation, data_id, data)
                  [] target_module = "material_balance" -> sync_unit_to_balance(c, operation, data_id, data)
                  [] target_module = "heat_balance"     -> sync_unit_to_heat(c, operation, data_id, data))
          [] source_module = "equipment_list" ->
               (CASE target_module = "material_balance" -> sync_equipment_to_balance(c, operation, data_id, data)
                  [] target_module = "heat_balance"     -> sync_equipment_to_heat(c, operation, data_id, data)
                  [] target_module = "water_balance"    -> sync_equipment_to_water(c, operation, data_id, data)),
        target_module)

\* for target_module in rules['targets']: ... ; an exception leaves the loop
RECURSIVE HandleEach(_, _, _, _, _, _)
HandleEach(c, source_module, targets, operation, data_id, data) ==
    IF targets = << >> \/ c.raised # "" THEN c
    ELSE HandleEach(Handle(c, source_module, Head(targets), operation, data_id, data),
                    source_module, Tail(targets), operation, data_id, data)

\* the trigger test dropped: every operation passes
AnyOperation(source_module, operation) == TRUE

\* operation in rules['triggers']
InTriggers(source_module, operation) == operation \in sync_rules[source_module].triggers

\* the success signal emitted whatever the handlers did
SyncSucceeded(c1, source_module) ==
    Emit(Swallow(c1), [signal |-> "sync_completed", source |-> source_module, success |-> TRUE])

\* lines 95-102: sync_completed(True) after the loop, sync_completed(False)
\* in the except block; c1 is the context the handler loop has left
SyncCompleted(c1, source_module) ==
    IF c1.raised = ""
    THEN Emit(c1, [signal |-> "sync_completed", source |-> source_module, success |-> TRUE])
    ELSE Emit(Swallow(c1), [signal |-> "sync_completed", source |-> source_module,
                            success |-> FALSE])

sync_data(c, source_module, operation, data_id, data) ==
    IF source_module \notin RuleModules THEN c
    ELSE IF ~InTriggers(source_module, operation) THEN c
    ELSE SyncCompleted(HandleEach(c, source_module, sync_rules[source_module].targets,
                                  operation, data_id, data),
                       source_module)

\* DataSyncEngine.calculate_all_balances: db.get_all_process_units() parses
\* every row inside try/except and returns [] when a row fails to parse
GetAllProcessUnits(d) ==
    IF DOMAIN d.process_flow # {} /\ ProcessUnitFromDictError # "" THEN << >>
    ELSE Filter(<<"u1", "u2">>, DOMAIN d.process_flow)

RECURSIVE AllBalancesEach(_, _)
AllBalancesEach(c, units) ==
    IF units = << >> THEN c
    ELSE AllBalancesEach(
            calculate_water_balance_for_unit(
                calculate_heat_balance_for_unit(
                    calculate_material_balance_for_unit(c, Head(units)), Head(units)),
                Head(units)),
            Tail(units))

calculate_all_balances(c) == AllBalancesEach(c, GetAllProcessUnits(c.db))
\* ------------------------------------------------------ input domains
\* data argument of sync_data: None / {} (truthy = FALSE) or a dict, of which
\* the handlers read 'type' and 'specific_heat'
NoData == [truthy |-> FALSE, type |-> "", specific_heat |-> 0]
DictData(type, specific_heat) == [truthy |-> TRUE, type |-> type, specific_heat |-> specific_heat]

UnitRow(type, reaction_heat) == [type |-> type, parameters |-> [reaction_heat |-> reaction_heat]]

\* the process units of the flowsheet: a reactor releasing 500 kW and a pump
UnitObjects == [u1 |-> UnitRow("reactor", 500), u2 |-> UnitRow("pump", 0)]

StreamRow(has_water, flow_rate, temperature, composition, source_unit, destination_unit) ==
    [name_has_water |-> has_water, flow_rate |-> flow_rate, temperature |-> temperature,
     composition |-> composition, source_unit |-> source_unit,
     destination_unit |-> destination_unit]

\* the streams of the flowsheet: the reactor effluent to the pump and a water
\* recycle back to the reactor
StreamObjects ==
    [s1 |-> {StreamRow(FALSE, 200, 80, [M1 |-> 50, M2 |-> 50], "u1", "u2")},
     s2 |-> {StreamRow(TRUE, 100, 60, [water |-> 100], "u2", "u1")}]

\* a stream that leaves the reactor and re-enters it
RecycleStream == StreamRow(FALSE, 50, 80, [M1 |-> 100], "u1", "u1")

MaterialRow(specific_heat) == [specific_heat |-> specific_heat]

MaterialObjects == [M1 |-> {MaterialRow(2)}]

EquipmentRow(type, source_unit) == [type |-> type, source_unit |-> source_unit]

\* a pump entered by hand in the equipment list, serving unit u2
EquipmentObjects == [P1 |-> {EquipmentRow("pump", "u2")}]

PairsOf(objects) == UNION {{<<k, r>> : r \in objects[k]} : k \in DOMAIN objects}

ObjectsOf(module) ==
    CASE module = "material_params"   -> PairsOf(MaterialObjects)
      [] module = "process_materials" -> PairsOf(StreamObjects)
      [] module = "process_flow"      -> {<<u, UnitObjects[u]>> : u \in DOMAIN UnitObjects}
      [] module = "equipment_list"    -> PairsOf(EquipmentObjects)

\* data.to_dict() as the handlers see it
DataDict(module, row) ==
    CASE module = "material_params" -> DictData("", row.specific_heat)
      [] module \in {"process_flow", "equipment_list"} -> DictData(row.type, 0)
      [] OTHER -> DictData("", 0)

\* --------------------------------------------------------- the actions
\* what `last` keeps of a top-level call: its name, its result, the arguments
\* of the sync_data call it made ("" when it made none), the handlers invoked,
\* the calculator runs, and the ids of the rows an import removed
LastOf(call, module, operation, data_id, ok, c) ==
    [call |-> call, module |-> module, operation |-> operation, data_id |-> data_id,
     ok |-> ok, handlers |-> c.handlers, runs |-> c.runs, failed |-> c.failed,
     removed |-> {}]

NoSync(call, ok) == LastOf(call, "", "", "", ok, Ctx(EmptyDb))

\* db.add_material / add_process_material / add_process_unit / add_equipment:
\* True when to_dict and the INSERT both succeed
AddSucceeds(d, module, id) ==
    AddError[module] = "" /\ ~HasRow(d[module], id)

\* a call that went through: the tables and signals it has left, and what
\* `last` keeps of it
Return(call, module, operation, data_id, c) ==
    /\ db' = c.db
    /\ events' = c.ev
    /\ last' = LastOf(call, module, operation, data_id, TRUE, c)
    /\ UNCHANGED <<foreign_keys, fn>>

\* return False, "..." before sync_data is reached: nothing written, nothing
\* emitted
Refuse(call) ==
    /\ events' = << >>
    /\ last' = NoSync(call, FALSE)
    /\ UNCHANGED <<db, foreign_keys, fn>>

\* ProjectManager.add_data(module, data): db.add_*, then sync_data, then
\* data_changed
AddData(module, id, row) ==
    IF AddSucceeds(db, module, id)
    THEN Return("add_data", module, "add", id,
                Emit(sync_data(SetTable(Ctx(db), module, Put(db[module], id, row)),
                               module, "add", id, DataDict(module, row)),
                     DataChanged(module, id, "add")))
    ELSE Refuse("add_data")

\* db.update_material: to_dict, then UPDATE ... SET <every key> WHERE material_id = ?
UpdateSucceeds(module) == AddError[module] = ""

\* ProjectManager.update_data(module, data): material_params only;
\* db.update_material, then data_changed, then sync_data
UpdateData(module, id, row) ==
    IF module = "material_params" /\ UpdateSucceeds(module)
    THEN Return("update_data", module, "update", id,
                sync_data(Emit(IF HasRow(db[module], id)
                               THEN SetTable(Ctx(db), module, Put(db[module], id, row))
                               ELSE Ctx(db),
                               DataChanged(module, id, "update")),
                          module, "update", id, DataDict(module, row)))
    ELSE Refuse("update_data")

\* ProjectManager.delete_data(module, data_id): material_params only;
\* db.delete_material succeeds whether or not a row matched; then
\* data_changed, then sync_data
DeleteData(module, id) ==
    IF module = "material_params"
    THEN Return("delete_data", module, "delete", id,
                sync_data(Emit(SetTable(Ctx(db), "material_params", Drop(db.material_params, id)),
                               DataChanged(module, id, "delete")),
                          module, "delete", id, NoData))
    ELSE Refuse("delete_data")

\* DataSyncEngine.sync_data called by a module widget
SyncData(source_module, operation, data_id, data) ==
    Return("sync_data", source_module, operation, data_id,
           sync_data(Ctx(db), source_module, operation, data_id, data))

\* ProjectManager.calculate_all_balances
CalculateAllBalances ==
    Return("calculate_all_balances", "", "", "", calculate_all_balances(Ctx(db)))

\* DELETE FROM <table> with ON DELETE CASCADE from process_flow to the three
\* balance tables, in force only under the pragma
CascadeDeleted(d, table) ==
    IF table = "process_flow" /\ foreign_keys
    THEN [d EXCEPT !.material_balance = << >>, !.heat_balance = << >>, !.water_balance = << >>]
    ELSE d

\* INSERT INTO <table> of the file's rows: under the pragma a balance row
\* whose unit is not in process_flow raises IntegrityError, and the except
\* block rolls the whole import back
ImportError(table, rows) ==
    IF table \in {"material_balance", "heat_balance", "water_balance"}
       /\ \E i \in DOMAIN rows : ~ForeignKeyOk(db, rows[i].unit_id)
    THEN "IntegrityError"
    ELSE ""

\* ProjectManager.import_data(path): DatabaseManager.import_from_json of a file
\* holding the rows of one table; the table is emptied and refilled
ImportData(table, rows) ==
    IF ImportError(table, rows) # "" THEN Refuse("import_data")
    ELSE /\ db' = [CascadeDeleted(db, table) EXCEPT ![table] = rows]
         /\ events' = << >>
         /\ last' = [NoSync("import_data", TRUE) EXCEPT
                        !.removed = IF table \in {"process_flow", "process_materials"}
                                    THEN (DOMAIN db[table]) \ DOMAIN rows ELSE {}]
         /\ UNCHANGED <<foreign_keys, fn>>

\* ProjectManager.open_project: a new DatabaseManager on the same file; connect()
\* issues no PRAGMA, so foreign keys are off on the new connection
OpenProject ==
    /\ foreign_keys
    /\ foreign_keys' = FALSE
    /\ events' = << >>
    /\ last' = NoSync("open_project", TRUE)
    /\ UNCHANGED <<db, fn>>
\* a material_balance row as an export holds it once the unit's balance has
\* been calculated over the streams of the flowsheet
SavedBalanceRow(unit_id) ==
    LET streams == [s \in StreamIds |-> CHOOSE r \in StreamObjects[s] : TRUE]
        inputs  == {s \in StreamIds : streams[s].destination_unit = unit_id}
        outputs == {s \in StreamIds \ inputs : streams[s].source_unit = unit_id}
        calc    == calculate_balance(DefaultTolerance, [s \in inputs |-> streams[s]],
                                     [s \in outputs |-> streams[s]])
    IN  [NewBalanceRow(unit_id, calc.balance_status) EXCEPT !.calculated_data = {calc.results}]

\* files import_data can read: the rows of one table, keyed by id, in rowid
\* order
ImportFiles(table) ==
    CASE table = "process_flow"      -> {[u \in S |-> UnitObjects[u]] : S \in (SUBSET UnitIds) \ {{}}}
      [] table = "process_materials" ->
            {[x \in S |-> CHOOSE r \in StreamObjects[x] : TRUE] : S \in {StreamIds, {"s2"}}}
            \cup {[x \in StreamIds |-> IF x = "s2" THEN RecycleStream
                                       ELSE CHOOSE r \in StreamObjects[x] : TRUE]}
      [] table = "material_balance"  ->
            {<<SavedBalanceRow("u1")>>, <<NewBalanceRow("u2", "pending")>>}

ImportTables == {"process_flow", "process_materials", "material_balance"}

\* arguments a caller can hand to sync_data: every rule module with every
\* trigger, plus an operation that is no trigger and a module without rules
SyncIds(module) ==
    CASE module = "material_params"   -> {"M1"}
      [] module = "process_materials" -> StreamIds
      [] module = "process_flow"      -> UnitIds
      [] module = "equipment_list"    -> {"P1", EquipmentIdOf("u2")}
SyncDatas(module) ==
    CASE module = "material_params" -> {NoData, DictData("", 4)}
      [] module = "process_flow"    -> {NoData, DictData("pump", 0)}
      [] OTHER                      -> {NoData}
SyncArgs ==
    UNION {{<<module, operation, id, data>> :
               operation \in {"add", "update"}, id \in SyncIds(module), data \in SyncDatas(module)}
           \cup {<<module, "delete", id, NoData>> : id \in SyncIds(module)}
           : module \in RuleModules}
    \cup {<<"process_flow", "refresh", "u1", NoData>>, <<"equipment_list", "refresh", "P1", NoData>>,
          <<"water_balance", "update", "u1", NoData>>}

Init ==
    /\ db = EmptyDb
    /\ foreign_keys = TRUE
    /\ events = << >>
    /\ last = NoSync("create_project", TRUE)
    /\ fn = [op |-> "none"]

Next ==
    \/ \E module \in RuleModules : \E o \in ObjectsOf(module) : AddData(module, o[1], o[2])
    \/ \E module \in RuleModules : \E o \in ObjectsOf(module) : UpdateData(module, o[1], o[2])
    \/ \E module \in RuleModules : \E id \in SyncIds(module) : DeleteData(module, id)
    \/ \E a \in SyncArgs : SyncData(a[1], a[2], a[3], a[4])
    \/ CalculateAllBalances
    \/ \E table \in ImportTables : \E rows \in ImportFiles(table) : ImportData(table, rows)
    \/ OpenProject

Spec == Init /\ [][Next]_vars
\* ------------------------------------ pinch analysis (heat_balance.py)
HeatStream(temperature_in, temperature_out, flow_rate, heat_capacity) ==
    [temperature_in |-> temperature_in, temperature_out |-> temperature_out,
     flow_rate |-> flow_rate, heat_capacity |-> heat_capacity]

\* sorted(list(temperatures), reverse=is_hot)
RECURSIVE SortedTemperatures(_, _)
SortedTemperatures(S, is_hot) ==
    IF S = {} THEN << >>
    ELSE LET first == IF is_hot THEN CHOOSE t \in S : \A o \in S : o <= t
                      ELSE CHOOSE t \in S : \A o \in S : t <= o
         IN  <<first>> \o SortedTemperatures(S \ {first}, is_hot)

\* if t1 <= t_max and t2 >= t_min: total_cp += stream.flow_rate * stream.heat_capacity
IntervalCp(streams, t1, t2) ==
    SumOver(DOMAIN streams,
            [sid \in DOMAIN streams |->
                LET t_min == Min(streams[sid].temperature_in, streams[sid].temperature_out)
                    t_max == Max(streams[sid].temperature_in, streams[sid].temperature_out)
                IN  IF t1 <= t_max /\ t2 >= t_min
                    THEN streams[sid].flow_rate * streams[sid].heat_capacity
                    ELSE 0])

RECURSIVE CumulativePoints(_, _, _, _)
CumulativePoints(streams, temp_list, i, cumulative_heat) ==
    IF i >= Len(temp_list) THEN << >>
    ELSE LET t1 == temp_list[i]
             t2 == temp_list[i + 1]
             total_cp == IntervalCp(streams, t1, t2)
             delta_q  == total_cp * Abs(t1 - t2)
         IN  <<[temperature |-> t1, cumulative_heat |-> cumulative_heat + delta_q,
                delta_q |-> delta_q, cp |-> total_cp]>>
             \o CumulativePoints(streams, temp_list, i + 1, cumulative_heat + delta_q)

\* _create_composite_curve(stream_ids, is_hot), streams the selected HeatStreams
create_composite_curve(streams, is_hot) ==
    LET temperatures == UNION {{streams[sid].temperature_in, streams[sid].temperature_out}
                               : sid \in DOMAIN streams}
    IN  CumulativePoints(streams, SortedTemperatures(temperatures, is_hot), 1, 0)

\* _find_pinch_point(...).get('temperature', 0): the hot point of the first
\* pair, in loop order, at the least distance from the shifted cold curve
PinchTemperature(hot_curve, cold_curve, delta_t_min) ==
    IF hot_curve = << >> \/ cold_curve = << >> THEN 0
    ELSE LET distance(h, c) == Abs(hot_curve[h].temperature
                                   - (cold_curve[c].temperature + delta_t_min))
             pairs == (DOMAIN hot_curve) \X (DOMAIN cold_curve)
             before(p, q) == p[1] < q[1] \/ (p[1] = q[1] /\ p[2] < q[2])
             best == CHOOSE p \in pairs :
                        \A q \in pairs : \/ distance(p[1], p[2]) < distance(q[1], q[2])
                                         \/ /\ distance(p[1], p[2]) = distance(q[1], q[2])
                                            /\ (p = q \/ before(p, q))
         IN  hot_curve[best[1]].temperature

\* hot_curve[-1]['cumulative_heat'] if hot_curve else 0
TotalHeat(curve) == IF curve = << >> THEN 0 ELSE curve[Len(curve)].cumulative_heat

\* the recoverable heat taken as the larger of the two totals
LargerTotal(total_hot_heat, total_cold_heat) == Max(total_hot_heat, total_cold_heat)

\* heat_recovery = min(total_hot_heat, total_cold_heat)
HeatRecovery(total_hot_heat, total_cold_heat) == Min(total_hot_heat, total_cold_heat)

calculate_minimum_utility(hot_curve, cold_curve, delta_t_min) ==
    LET total_hot_heat  == TotalHeat(hot_curve)
        total_cold_heat == TotalHeat(cold_curve)
        heat_recovery   == HeatRecovery(total_hot_heat, total_cold_heat)
    IN  [hot_utility   |-> Max(0, total_cold_heat - heat_recovery),
         cold_utility  |-> Max(0, total_hot_heat - heat_recovery),
         heat_recovery |-> heat_recovery]

\* calculate_pinch_analysis() with the default stream selection
calculate_pinch_analysis(heat_streams, delta_t_min) ==
    LET hot_streams  == {sid \in DOMAIN heat_streams :
                            heat_streams[sid].temperature_in > heat_streams[sid].temperature_out}
        cold_streams == {sid \in DOMAIN heat_streams :
                            heat_streams[sid].temperature_in < heat_streams[sid].temperature_out}
        hot_composite  == create_composite_curve([sid \in hot_streams |-> heat_streams[sid]], TRUE)
        cold_composite == create_composite_curve([sid \in cold_streams |-> heat_streams[sid]], FALSE)
        min_utility == calculate_minimum_utility(hot_composite, cold_composite, delta_t_min)
    IN  [pinch_temperature       |-> PinchTemperature(hot_composite, cold_composite, delta_t_min),
         hot_utility_min         |-> min_utility.hot_utility,
         cold_utility_min        |-> min_utility.cold_utility,
         heat_recovery_potential |-> min_utility.heat_recovery,
         hot_composite_curve     |-> hot_composite,
         cold_composite_curve    |-> cold_composite]

\* --------------------------------- the calculations applied to inputs
\* at most MaxStreams streams on each side of a unit
MaxStreams == 2
\* at most MaxHeatStreams streams in a pinch analysis
MaxHeatStreams == 3

FlowRates == {0, 90, 99, 100}

RECURSIVE SeqsUpTo(_, _)
SeqsUpTo(S, n) ==
    IF n = 0 THEN {<< >>}
    ELSE LET shorter == SeqsUpTo(S, n - 1)
         IN  shorter \cup {Append(q, x) : q \in {r \in shorter : Len(r) = n - 1}, x \in S}

\* ProcessMaterial objects entering or leaving unit u1
FeedStream(flow_rate) == StreamRow(FALSE, flow_rate, 25, [M1 |-> 100], NULL, "u1")
ProductStream(flow_rate) == StreamRow(FALSE, flow_rate, 25, [M1 |-> 100], "u1", NULL)

BalanceInputs ==
    {[op |-> "input", target |-> "calculate_balance",
      input_streams_data |-> [i \in DOMAIN ins |-> FeedStream(ins[i])],
      output_streams_data |-> [i \in DOMAIN outs |-> ProductStream(outs[i])]]
     : ins \in SeqsUpTo(FlowRates, MaxStreams), outs \in SeqsUpTo(FlowRates, MaxStreams)}

\* water-bearing streams of unit u1, as the query of lines 482-488 selects them
WaterStreamObjects ==
    [w1 |-> StreamRow(FALSE, 100, 25, [water |-> 100], NULL, "u1"),
     w2 |-> StreamRow(FALSE, 100, 25, [water |-> 50, M1 |-> 50], "u1", NULL),
     w3 |-> StreamRow(TRUE, 200, 25, [M2 |-> 100], "u1", NULL),
     w4 |-> StreamRow(FALSE, 90, 25, [water |-> 100], "u2", "u1")]

WaterInputs ==
    {[op |-> "input", target |-> "water_balance", unit_id |-> "u1",
      streams |-> [w \in S |-> WaterStreamObjects[w]]]
     : S \in SUBSET DOMAIN WaterStreamObjects}

HeatStreamObjects ==
    {HeatStream(150, 60, 2, 4), HeatStream(120, 80, 3, 2), HeatStream(90, 40, 1, 4),
     HeatStream(20, 130, 2, 3), HeatStream(50, 100, 4, 2), HeatStream(60, 60, 5, 1)}

DeltaTMin == 10

PinchInputs ==
    {[op |-> "input", target |-> "pinch_analysis", heat_streams |-> q]
     : q \in SeqsUpTo(HeatStreamObjects, MaxHeatStreams)}

\* tolerance column of a stored material_balance record, in units of
\* 1/ToleranceScale: the default 0.01 and 5.0
StoredTolerances == {DefaultTolerance, 500}

\* lines 291-293 of _calculate_material_balance_for_unit for a unit whose
\* stored record carries `tolerance`: the calculation is made on a new
\* MaterialBalance(unit_id=unit_id), which has the dataclass default; the
\* column of the stored record is not read
BalanceOfRecord(tolerance, input_streams, output_streams) ==
    calculate_balance(DefaultTolerance, input_streams, output_streams)

RecordBalanceInputs ==
    {[op |-> "input", target |-> "record_balance", tolerance |-> t,
      input_streams |-> [i \in DOMAIN ins |-> FeedStream(ins[i])],
      output_streams |-> [i \in DOMAIN outs |-> ProductStream(outs[i])]]
     : t \in StoredTolerances,
       ins \in SeqsUpTo(FlowRates, MaxStreams) \ {<< >>},
       outs \in SeqsUpTo(FlowRates, MaxStreams)}

InitFn ==
    /\ db = EmptyDb
    /\ foreign_keys = TRUE
    /\ events = << >>
    /\ last = NoSync("create_project", TRUE)
    /\ fn \in BalanceInputs \cup WaterInputs \cup PinchInputs \cup RecordBalanceInputs

\* MaterialBalance(unit_id=...).calculate_balance(inputs, outputs)
ApplyCalculateBalance ==
    /\ fn.op = "input" /\ fn.target = "calculate_balance"
    /\ fn' = [op |-> "calculate_balance", args |-> fn,
              result |-> calculate_balance(DefaultTolerance, fn.input_streams_data,
                                           fn.output_streams_data)]
    /\ UNCHANGED <<db, foreign_keys, events, last>>

\* lines 490-522 of _calculate_water_balance_for_unit on parsed streams
ApplyWaterBalance ==
    /\ fn.op = "input" /\ fn.target = "water_balance"
    /\ fn' = [op |-> "water_balance", args |-> fn,
              result |-> WaterBalanceData(fn.unit_id, fn.streams)]
    /\ UNCHANGED <<db, foreign_keys, events, last>>

\* HeatBalanceCalculator.calculate_pinch_analysis()
ApplyPinchAnalysis ==
    /\ fn.op = "input" /\ fn.target = "pinch_analysis"
    /\ fn' = [op |-> "pinch_analysis", args |-> fn,
              result |-> calculate_pinch_analysis(fn.heat_streams, DeltaTMin)]
    /\ UNCHANGED <<db, foreign_keys, events, last>>

\* lines 288-293 of _calculate_material_balance_for_unit on parsed streams
ApplyBalanceOfRecord ==
    /\ fn.op = "input" /\ fn.target = "record_balance"
    /\ fn' = [op |-> "record_balance", args |-> fn,
              result |-> BalanceOfRecord(fn.tolerance, fn.input_streams, fn.output_streams)]
    /\ UNCHANGED <<db, foreign_keys, events, last>>

NextFn ==
    \/ ApplyCalculateBalance
    \/ ApplyWaterBalance
    \/ ApplyPinchAnalysis
    \/ ApplyBalanceOfRecord

SpecFn == InitFn /\ [][NextFn]_vars

\* ---------------------------------------------------------- properties
\* the calculator runs of the last call for one balance kind and unit
RunsOf(l, kind, unit_id) ==
    {i \in DOMAIN l.runs : l.runs[i].kind = kind /\ l.runs[i].unit_id = unit_id}

\* the calculation_completed signals among evs for one balance kind and unit
CompletedOf(evs, kind, unit_id) ==
    {i \in DOMAIN evs : /\ evs[i].signal = "calculation_completed"
                        /\ evs[i].calc_type = kind /\ evs[i].unit_id = unit_id}

SignalsOf(evs, signal) == {i \in DOMAIN evs : evs[i].signal = signal}

BalanceTables == {"material_balance", "heat_balance", "water_balance"}

\* C1: a sync_data call whose source module has no rules, or whose operation
\* is none of the module's triggers, invokes no handler, runs no calculator,
\* emits no sync_completed and no calculation_completed signal, and leaves
\* every table as it was.
C1_RejectedSyncIsNoOp ==
    [][(/\ last'.call = "sync_data"
        /\ \/ last'.module \notin RuleModules
           \/ last'.operation \notin Triggers)
       => /\ db' = db
          /\ last'.handlers = << >>
          /\ last'.runs = << >>
          /\ SignalsOf(events', "sync_completed") = {}
          /\ SignalsOf(events', "calculation_completed") = {}]_vars

\* a rejected call arrives while the unit it names is in the store
C1_Witness ==
    /\ last.call = "sync_data"
    /\ last.operation \notin Triggers
    /\ HasRow(db.process_flow, last.data_id)
    /\ StreamsOfUnit(db, last.data_id) # {}
\* the last call propagated (module, operation) through sync_data
Propagated(l, module, operation) ==
    /\ l.call \in {"sync_data", "add_data", "update_data", "delete_data"}
    /\ l.module = module
    /\ l.operation = operation

\* C2: a sync_data('process_materials', 'update', s) call for a stream s that
\* joins two distinct existing units runs the mass balance calculator exactly
\* once for the source unit and exactly once for the destination unit.
C2_EndpointsRecomputedOnce ==
    (/\ Propagated(last, "process_materials", "update")
     /\ HasRow(db.process_materials, last.data_id)
     /\ LET s == db.process_materials[last.data_id]
        IN  /\ s.source_unit # s.destination_unit
            /\ HasRow(db.process_flow, s.source_unit)
            /\ HasRow(db.process_flow, s.destination_unit))
    => LET s == db.process_materials[last.data_id]
       IN  /\ Cardinality(RunsOf(last, "material_balance", s.source_unit)) = 1
           /\ Cardinality(RunsOf(last, "material_balance", s.destination_unit)) = 1

\* C3: when the deletion of material m is propagated, every stream whose
\* composition held m together with another component no longer holds m
\* afterwards and its remaining fractions sum to 1.
C3_DeletedMaterialLeavesStreams ==
    [][Propagated(last', "material_params", "delete")
       => \A s \in DOMAIN db.process_materials :
            LET m      == last'.data_id
                before == db.process_materials[s].composition
            IN  (m \in DOMAIN before /\ DOMAIN before # {m})
                => /\ HasRow(db'.process_materials, s)
                   /\ m \notin DOMAIN db'.process_materials[s].composition
                   /\ SumOver(DOMAIN db'.process_materials[s].composition,
                              db'.process_materials[s].composition) = FractionScale]_vars

BalanceRowsOf(rows, unit_id) == SelectSeq(rows, LAMBDA r : r.unit_id = unit_id)

\* C7: two mass balance calculator runs for a unit in consecutive calls, with
\* the streams unchanged in between, leave the same material_balance row
\* (payload and status) and emit the same payloads.
C7_MassBalanceIdempotent ==
    [][\A u \in UnitIds :
          (/\ RunsOf(last, "material_balance", u) # {}
           /\ RunsOf(last', "material_balance", u) # {}
           /\ db'.process_materials = db.process_materials)
          => /\ BalanceRowsOf(db'.material_balance, u) = BalanceRowsOf(db.material_balance, u)
             /\ {events'[i] : i \in CompletedOf(events', "material_balance", u)}
                = {events[i] : i \in CompletedOf(events, "material_balance", u)}]_vars

\* a run for u1 that found the row an earlier run had inserted
C7_Witness ==
    /\ \E i \in RunsOf(last, "material_balance", "u1") : ~last.runs[i].created
    /\ RowsOf(db.material_balance, "u1") # {}
    /\ StreamsOfUnit(db, "u1") # {}

\* C9: a heat balance calculator run for an existing unit without streams
\* whose parameters carry reaction_heat = r > 0 leaves a heat_balance row with
\* input 'reaction' = r, total input r, heat_loss = 5% of r under the output
\* key 'heat_loss', and total output = heat_loss.
C9_ReactionHeatRecorded ==
    \A i \in DOMAIN last.runs :
        LET u == last.runs[i].unit_id
        IN  (/\ last.runs[i].kind = "heat_balance"
             /\ HasRow(db.process_flow, u)
             /\ StreamsOfUnit(db, u) = {}
             /\ db.process_flow[u].parameters.reaction_heat > 0)
            => \E j \in RowsOf(db.heat_balance, u) :
                 LET row == db.heat_balance[j]
                     r   == db.process_flow[u].parameters.reaction_heat * HeatScale
                 IN  /\ row.input_heat.reaction = {r}
                     /\ row.calculated_data.total_input = r
                     /\ row.heat_loss * 100 = r * HeatLossPercent
                     /\ row.output_heat.heat_loss = row.heat_loss
                     /\ row.calculated_data.total_output = row.heat_loss
\* C6: for total input > 0, calculate_balance under the default tolerance
\* yields is_balanced and status 'balanced' exactly when
\* |total_output - total_input| / total_input * 100 <= 1, and otherwise
\* is_balanced = FALSE and status 'unbalanced'.
C6_BalancedWithinOnePercent ==
    (fn.op = "calculate_balance" /\ fn.result.results.total_input > 0)
    => LET r      == fn.result.results
           within == Abs(r.total_output - r.total_input) * 100 <= 1 * r.total_input
       IN  /\ r.is_balanced = within
           /\ fn.result.balance_status = IF within THEN "balanced" ELSE "unbalanced"

C10_PinchUtilitiesBounded ==
    fn.op = "pinch_analysis"
    => LET r == fn.result
           total_hot_heat  == TotalHeat(r.hot_composite_curve)
           total_cold_heat == TotalHeat(r.cold_composite_curve)
       IN  /\ r.hot_utility_min >= 0
           /\ r.cold_utility_min >= 0
           /\ r.heat_recovery_potential <= total_hot_heat
           /\ r.heat_recovery_potential <= total_cold_heat

\* hot and cold streams with different total heats
C10_Witness ==
    /\ fn.op = "pinch_analysis"
    /\ TotalHeat(fn.result.hot_composite_curve) > TotalHeat(fn.result.cold_composite_curve)
    /\ TotalHeat(fn.result.cold_composite_curve) > 0
    /\ fn.result.cold_utility_min > 0

\* the last call reached the handler loop of sync_data
Dispatched(l) == l.module \in RuleModules /\ l.operation \in Triggers

\* C11: in a sync_data call that passes the guard the handler of every target
\* module of the rule is invoked, whether or not an earlier handler raised.
C11_HandlersRunIndependently ==
    Dispatched(last) => Len(last.handlers) = Len(sync_rules[last.module].targets)

\* C12: a calculator run that failed during the last call is surfaced on the
\* signal channel: by a sync_completed signal reporting failure or by a
\* calculation_completed signal for that balance and unit carrying a failure
\* status.
C12_FailedCalculationSurfaced ==
    \A i \in DOMAIN last.runs :
        last.runs[i].outcome = "failed"
        => \E j \in DOMAIN events :
              \/ events[j].signal = "sync_completed" /\ ~events[j].success
              \/ /\ events[j].signal = "calculation_completed"
                 /\ events[j].calc_type = last.runs[i].kind
                 /\ events[j].unit_id = last.runs[i].unit_id
                 /\ events[j].status = "failed"

\* C13: a sync_data call that passes the guard emits exactly one
\* sync_completed signal, after every calculation_completed signal of the call,
\* with success = TRUE exactly when no handler let an exception out.
C13_OneSyncCompleted ==
    Dispatched(last)
    => LET sc == SignalsOf(events, "sync_completed")
       IN  /\ Cardinality(sc) = 1
           /\ \A i \in sc :
                 /\ events[i].success = (last.failed = "")
                 /\ \A j \in SignalsOf(events, "calculation_completed") : j < i

\* a handler raised on a stream that is in the store
C13_Witness ==
    /\ Dispatched(last)
    /\ last.failed # ""
    /\ last.module = "process_materials"
    /\ HasRow(db.process_materials, last.data_id)
    /\ \E i \in SignalsOf(events, "sync_completed") : ~events[i].success

\* C14: when the deletion of material m is propagated, every material_balance
\* row whose calculated data references m has status 'needs_recalculation'
\* afterwards, no calculator runs and no calculation_completed is emitted.
C14_DeleteMarksBalances ==
    [][Propagated(last', "material_params", "delete")
       => /\ \A i \in DOMAIN db.material_balance :
                CalculatedDataLike(db.material_balance[i], last'.data_id)
                => /\ i \in DOMAIN db'.material_balance
                   /\ db'.material_balance[i].balance_status = "needs_recalculation"
          /\ last'.runs = << >>
          /\ SignalsOf(events', "calculation_completed") = {}]_vars

\* C15: when an add or update of material m is propagated, the mass balance
\* calculator runs for every unit at either end of a stream whose composition
\* contains m.
C15_MaterialChangeRecomputesMass ==
    (Propagated(last, "material_params", "add") \/ Propagated(last, "material_params", "update"))
    => \A s \in DOMAIN db.process_materials :
          CompositionLike(db.process_materials[s], last.data_id)
          => \A i \in DOMAIN EndpointsOf(db.process_materials[s]) :
                RunsOf(last, "material_balance", EndpointsOf(db.process_materials[s])[i]) # {}

\* C16: when an add or update of a stored stream s is propagated, the mass
\* and the heat balance calculators run for each existing endpoint unit of s, and the
\* water balance calculator runs for them exactly when s is water-bearing.
C16_StreamChangeRecomputesEndpoints ==
    (/\ Propagated(last, "process_materials", "add") \/ Propagated(last, "process_materials", "update")
     /\ HasRow(db.process_materials, last.data_id))
    => LET stream == db.process_materials[last.data_id]
           units  == EndpointsOf(stream)
       IN  \A i \in DOMAIN units :
              HasRow(db.process_flow, units[i])
              =>
              /\ RunsOf(last, "material_balance", units[i]) # {}
              /\ RunsOf(last, "heat_balance", units[i]) # {}
              /\ (RunsOf(last, "water_balance", units[i]) # {}) = is_water_stream(stream)

\* C17: once stream s has been removed from the store and its deletion is
\* propagated with sync_data('process_materials', 'delete', s), the mass and
\* the heat balance calculators run for each existing former endpoint unit of s, and
\* the water balance calculator too when s was water-bearing.
C17_StreamDeleteRecomputesEndpoints ==
    [][(/\ last.call = "import_data"
        /\ last'.call = "sync_data"
        /\ last'.module = "process_materials"
        /\ last'.operation = "delete"
        /\ last'.data_id \in last.removed)
       => LET stream == CHOOSE r \in StreamObjects[last'.data_id] : TRUE
              units  == EndpointsOf(stream)
          IN  \A i \in DOMAIN units :
                 HasRow(db'.process_flow, units[i])
                 =>
                 /\ RunsOf(last', "material_balance", units[i]) # {}
                 /\ RunsOf(last', "heat_balance", units[i]) # {}
                 /\ is_water_stream(stream) => RunsOf(last', "water_balance", units[i]) # {}]_vars

\* C18: after add_data of process unit u the store holds the equipment row
\* 'EQ-' + u with source_unit u and the type the lookup table gives for the
\* unit's type, and a material_balance row for u in status 'pending'.
C18_UnitAddCreatesEquipmentAndBalance ==
    (last.call = "add_data" /\ last.module = "process_flow")
    => LET u == last.data_id
       IN  /\ HasRow(db.equipment_list, EquipmentIdOf(u))
           /\ db.equipment_list[EquipmentIdOf(u)].source_unit = u
           /\ db.equipment_list[EquipmentIdOf(u)].type
                = EquipmentTypeLabel(db.process_flow[u].type)
           /\ \E i \in RowsOf(db.material_balance, u) :
                 db.material_balance[i].balance_status = "pending"

\* the types of pumps, cooling towers and boilers, as entered by hand and as
\* the lookup table writes them for a pump unit
WaterEquipmentKinds == {"pump", "cooling_tower", "boiler", EquipmentTypeLabel("pump")}

\* C19: when an add or update of a stored equipment record with a
\* source_unit is propagated, the water balance calculator runs for that unit
\* exactly when the equipment is a pump, cooling tower or boiler, records
\* created from a pump unit included; an equipment delete runs none.
C19_WaterEquipmentRecomputesWater ==
    /\ (/\ Propagated(last, "equipment_list", "add") \/ Propagated(last, "equipment_list", "update")
        /\ HasRow(db.equipment_list, last.data_id)
        /\ db.equipment_list[last.data_id].source_unit # NULL)
       => LET e == db.equipment_list[last.data_id]
          IN  (RunsOf(last, "water_balance", e.source_unit) # {})
              = (e.type \in WaterEquipmentKinds)
    /\ Propagated(last, "equipment_list", "delete")
       => \A u \in UnitIds : RunsOf(last, "water_balance", u) = {}

\* C20: a mass balance calculator run that finds neither input nor output
\* streams for its unit and returns early has created no material_balance
\* record.
C20_NoStreamsNoRecord ==
    \A i \in DOMAIN last.runs :
        (last.runs[i].kind = "material_balance" /\ last.runs[i].outcome = "returned")
        => ~last.runs[i].created

\* C21: a calculator run that failed with an exception has written nothing:
\* it has not inserted the unit's balance record.
C21_FailedRunWritesNothing ==
    \A i \in DOMAIN last.runs :
        last.runs[i].outcome = "failed" => ~last.runs[i].created

\* balance_status: str = "pending"  # pending, calculated, balanced, unbalanced,
\* and the value _mark_balance_for_recalculation writes
BalanceStatuses == {"pending", "calculated", "balanced", "unbalanced", "needs_recalculation"}

C23_AllBalancesRunsEveryCalculator ==
    last.call = "calculate_all_balances"
    => \A u \in DOMAIN db.process_flow :
          \E i, j, k \in DOMAIN last.runs :
             /\ i < j /\ j < k
             /\ RunsOf(last, "material_balance", u) = {i}
             /\ RunsOf(last, "heat_balance", u) = {j}
             /\ RunsOf(last, "water_balance", u) = {k}

C25_OneRunPerKindAndUnit ==
    Dispatched(last)
    => \A kind \in BalanceTables : \A u \in UnitIds :
          Cardinality(RunsOf(last, kind, u)) <= 1

\* a change of a stored stream whose source and destination are one unit has
\* been propagated
C25_Witness ==
    /\ Dispatched(last)
    /\ last.module = "process_materials"
    /\ last.operation \in {"add", "update"}
    /\ HasRow(db.process_materials, last.data_id)
    /\ db.process_materials[last.data_id].source_unit
         = db.process_materials[last.data_id].destination_unit
    /\ HasRow(db.process_flow, db.process_materials[last.data_id].source_unit)

\* C26: whenever a calculation_completed signal for a balance kind and a unit
\* has been emitted, the store holds a record of that kind for that unit with
\* the results the signal carries, and with the status it carries where the
\* table has a balance_status column (material_balance, heat_balance).
C26_CompletedAfterStored ==
    \A j \in SignalsOf(events, "calculation_completed") :
        LET e == events[j]
        IN  \E i \in RowsOf(db[e.calc_type], e.unit_id) :
               LET row == db[e.calc_type][i]
               IN  CASE e.calc_type = "material_balance" ->
                          row.balance_status = e.status /\ row.calculated_data = {e.results}
                     [] e.calc_type = "heat_balance" ->
                          row.balance_status = e.status /\ row.calculated_data = e.results
                     [] e.calc_type = "water_balance" -> row = e.results

\* a water balance has been calculated for a unit whose record was there
C26_Witness ==
    \E i \in DOMAIN last.runs :
        /\ last.runs[i].kind = "water_balance"
        /\ last.runs[i].outcome = "completed"
        /\ ~last.runs[i].created
        /\ CompletedOf(events, "water_balance", last.runs[i].unit_id) # {}

\* C27: for a unit whose stored material_balance record carries tolerance t,
\* the mass balance calculation over the unit's streams (total input > 0)
\* yields is_balanced and status 'balanced' exactly when
\* difference_percent <= t.
C27_StoredToleranceUsed ==
    (fn.op = "record_balance" /\ fn.result.results.total_input > 0)
    => LET r      == fn.result.results
           within == r.difference_percent.num * ToleranceScale
                        <= fn.args.tolerance * r.difference_percent.den
       IN  /\ r.is_balanced = within
           /\ fn.result.balance_status = IF within THEN "balanced" ELSE "unbalanced"

\* sum over the streams sids of flow_rate * heat_capacity * |temperature_in - temperature_out|
StreamDuties(heat_streams, sids) ==
    SumOver(sids, [sid \in sids |->
                      heat_streams[sid].flow_rate * heat_streams[sid].heat_capacity
                      * Abs(heat_streams[sid].temperature_in - heat_streams[sid].temperature_out)])

\* C28: in the hot and in the cold composite curve of a pinch analysis the
\* cumulative heat never decreases along the curve and its final value is the
\* sum over the curve's streams of
\* flow_rate * heat_capacity * |temperature_in - temperature_out|.
C28_CompositeCurveTotals ==
    fn.op = "pinch_analysis"
    => LET hs   == fn.args.heat_streams
           hot  == {sid \in DOMAIN hs : hs[sid].temperature_in > hs[sid].temperature_out}
           cold == {sid \in DOMAIN hs : hs[sid].temperature_in < hs[sid].temperature_out}
           rising(curve) == \A i \in 1..(Len(curve) - 1) :
                               curve[i].cumulative_heat <= curve[i + 1].cumulative_heat
       IN  /\ TotalHeat(fn.result.hot_composite_curve) = StreamDuties(hs, hot)
           /\ TotalHeat(fn.result.cold_composite_curve) = StreamDuties(hs, cold)
           /\ rising(fn.result.hot_composite_curve)
           /\ rising(fn.result.cold_composite_curve)

\* C29: the store holds at most one material_balance, at most one
\* heat_balance and at most one water_balance row per unit_id.
C29_OneRecordPerUnit ==
    \A t \in BalanceTables : \A u \in UnitIds : Cardinality(RowsOf(db[t], u)) <= 1

\* the mass and the water calculator have run for a unit that had its two
\* records already
C29_Witness ==
    \E u \in UnitIds :
        /\ \E i \in RunsOf(last, "material_balance", u) : ~last.runs[i].created
        /\ \E i \in RunsOf(last, "water_balance", u) :
              ~last.runs[i].created /\ last.runs[i].outcome = "completed"
        /\ Cardinality(RowsOf(db.material_balance, u)) = 1
        /\ Cardinality(RowsOf(db.water_balance, u)) = 1

\* C30: a call that goes through the handlers of sync_data invokes only the
\* handlers of its own rule, each at most once and in the rule's order (no
\* sync_data call is made from within it), makes at most one calculator run
\* per balance kind and unit of the flowsheet, and for a stream change makes
\* calculator runs only for the source_unit and destination_unit of that
\* stream.
C30_PropagationIsOneHop ==
    Dispatched(last)
    => LET targets == sync_rules[last.module].targets
       IN  /\ \A i \in DOMAIN last.handlers :
                  /\ i <= Len(targets)
                  /\ last.handlers[i] = HandlerName(last.module, targets[i])
           /\ Len(last.runs) <= Cardinality(BalanceTables) * Cardinality(UnitIds)
           /\ last.module = "process_materials"
              => \A i \in DOMAIN last.runs :
                    /\ HasRow(db.process_materials, last.data_id)
                    /\ InSeq(last.runs[i].unit_id,
                             EndpointsOf(db.process_materials[last.data_id]))

\* a change of a stored stream has been propagated while another stream joins
\* one of its units to a unit that is none of its own
C30_Witness ==
    /\ Dispatched(last)
    /\ last.module = "process_materials"
    /\ last.operation \in {"add", "update"}
    /\ HasRow(db.process_materials, last.data_id)
    /\ \E s \in DOMAIN db.process_materials :
          LET own   == EndpointsOf(db.process_materials[last.data_id])
              other == EndpointsOf(db.process_materials[s])
          IN  /\ s # last.data_id
              /\ \E i \in DOMAIN other : InSeq(other[i], own)
              /\ \E i \in DOMAIN other :
                    ~InSeq(other[i], own) /\ HasRow(db.process_flow, other[i])
====
